---- MODULE Spec2Model ----
(***************************************************************************)
(* The CEK machine of ruceki (src/src/cek.rs) with its values and          *)
(* built-ins (src/src/val.rs) over the expression language of              *)
(* src/src/ast.rs.                                                         *)
(*                                                                         *)
(* Values live behind Rc handles: the model keeps a heap of value cells    *)
(* per run, a handle is the index of a cell, and Rc::new appends a cell.   *)
(* Vec<Rc<Value>> is a sequence of handles owned by the cell or frame      *)
(* that holds it.  Dropped cells are not reclaimed.                        *)
(***************************************************************************)
EXTENDS Integers, Sequences, FiniteSets, TLC

\* ------------------------------------------------------------------ bounds

\* Width of the machine integer in the model (i64 in the source, scaled).
IntBits == 12
\* The driver's step counter is capped so that diverging programs stay finite.
MaxSteps == 120
\* Largest de Bruijn index among the generated entry expressions.
MaxIdx == 3

TwoPow(n) == 2 ^ n
MinInt == 0 - TwoPow(IntBits - 1)
MaxInt == TwoPow(IntBits - 1) - 1
\* usize::MAX, for the unsigned subtractions that may wrap.
UsizeMax == TwoPow(IntBits) - 1

\* Two runs of the same program on the same input; Spec drives run 1 only.
Runs == {1, 2}

\* ------------------------------------------------------------- ast.rs

Externals ==
    {"add", "sub", "mul", "neg", "eq", "le", "lt", "gt", "ge",
     "chr", "ord", "puti", "putc", "geti", "getc", "seq"}

\* External::arity
ExternalArity(name) ==
    CASE name = "add" -> 2
      [] name = "sub" -> 2
      [] name = "mul" -> 2
      [] name = "neg" -> 1
      [] name = "eq" -> 2
      [] name = "le" -> 2
      [] name = "lt" -> 2
      [] name = "gt" -> 2
      [] name = "ge" -> 2
      [] name = "chr" -> 1
      [] name = "ord" -> 1
      [] name = "puti" -> 1
      [] name = "putc" -> 1
      [] name = "geti" -> 1
      [] name = "getc" -> 1
      [] name = "seq" -> 2

\* enum Expr
Local(idx) == [node |-> "Local", idx |-> idx]
Global(name) == [node |-> "Global", name |-> name]
External(name) == [node |-> "External", name |-> name]
PackE(tag, arity) == [node |-> "Pack", tag |-> tag, arity |-> arity]
Num(int) == [node |-> "Num", int |-> int]
Ap(fun, args) == [node |-> "Ap", fun |-> fun, args |-> args]
Let(lhs, rhs, body) == [node |-> "Let", lhs |-> lhs, rhs |-> rhs, body |-> body]
Match(expr, altns) == [node |-> "Match", expr |-> expr, altns |-> altns]
\* struct Altn, struct Lambda
Altn(binds, rhs) == [binds |-> binds, rhs |-> rhs]
Lambda(binds, body) == [binds |-> binds, body |-> body]

\* Expr::entry_point
entry_point == Ap(Global("main"), <<PackE(0, 0)>>)

\* ------------------------------------------------------------- val.rs

\* enum Prim
PrimGlobal(name, lam) == [prim |-> "Global", name |-> name, lam |-> lam]
PrimExternal(name) == [prim |-> "External", name |-> name]
PrimPack(tag, arity) == [prim |-> "Pack", tag |-> tag, arity |-> arity]

\* enum Value (a heap cell; args are handles)
VNum(int) == [val |-> "Num", int |-> int]
VPack(tag, args) == [val |-> "Pack", tag |-> tag, args |-> args]
VPAP(prim, args, missing) ==
    [val |-> "PAP", prim |-> prim, args |-> args, missing |-> missing]

\* ------------------------------------------------------------- cek.rs

\* enum Ctrl
CtrlEvaluating == [kind |-> "Evaluating"]
CtrlExpr(expr) == [kind |-> "Expr", expr |-> expr]
CtrlValue(value) == [kind |-> "Value", value |-> value]

\* enum Kont
KDump(e) == [frame |-> "Dump", env |-> e]
KPop(count) == [frame |-> "Pop", count |-> count]
KArgs(args) == [frame |-> "Args", args |-> args]
KFun(prim, args, missing) ==
    [frame |-> "Fun", prim |-> prim, args |-> args, missing |-> missing]
KMatch(altns) == [frame |-> "Match", altns |-> altns]
KLet(name, body) == [frame |-> "Let", name |-> name, body |-> body]

\* ------------------------------------------------- val.rs: built-ins

\* i64 arithmetic wraps to the machine width when overflow checks are off.
Wrap(x) == ((x - MinInt) % TwoPow(IntBits)) + MinInt
InRange(x) == MinInt <= x /\ x <= MaxInt

\* Display for i64 ("{}"): the decimal digits as bytes, '-' first when negative.
RECURSIVE Digits(_)
Digits(n) == IF n < 10 THEN <<48 + n>> ELSE Digits(n \div 10) \o <<48 + (n % 10)>>
DisplayI64(n) == IF n < 0 THEN <<45>> \o Digits(0 - n) ELSE Digits(n)

\* Display for char: the UTF-8 encoding of a code point below 256.
Utf8(c) == IF c < 128 THEN <<c>> ELSE <<192 + (c \div 64), 128 + (c % 64)>>

\* BufRead::read_line: the bytes up to and including the first '\n', or all.
RECURSIVE LineLen(_, _)
LineLen(inp, i) ==
    IF i > Len(inp) THEN Len(inp)
    ELSE IF inp[i] = 10 THEN i
    ELSE LineLen(inp, i + 1)

\* Whether a byte string is UTF-8 (one- and two-byte sequences; the inputs of
\* the model hold no byte above 223).
RECURSIVE IsUtf8(_)
IsUtf8(s) ==
    IF s = <<>> THEN TRUE
    ELSE IF s[1] < 128 THEN IsUtf8(Tail(s))
    ELSE IF s[1] >= 194 /\ s[1] <= 223 /\ Len(s) >= 2 /\ s[2] >= 128 /\ s[2] <= 191
         THEN IsUtf8(Tail(Tail(s)))
    ELSE FALSE

\* str::trim: the white space of one byte, and the two code points of white
\* space that take two bytes (U+0085 and U+00A0).
IsSpace(b) == b \in {9, 10, 11, 12, 13, 32}
IsWideSpace(b, c) == b = 194 /\ c \in {133, 160}
RECURSIVE TrimStart(_)
TrimStart(s) ==
    IF s # <<>> /\ IsSpace(s[1]) THEN TrimStart(Tail(s))
    ELSE IF Len(s) >= 2 /\ IsWideSpace(s[1], s[2]) THEN TrimStart(Tail(Tail(s)))
    ELSE s
RECURSIVE TrimEnd(_)
TrimEnd(s) ==
    IF s # <<>> /\ IsSpace(s[Len(s)]) THEN TrimEnd(SubSeq(s, 1, Len(s) - 1))
    ELSE IF Len(s) >= 2 /\ IsWideSpace(s[Len(s) - 1], s[Len(s)])
         THEN TrimEnd(SubSeq(s, 1, Len(s) - 2))
    ELSE s
Trim(s) == TrimEnd(TrimStart(s))

\* str::parse::<i64>: an optional sign, then one or more decimal digits, the
\* value within the integer's range.
\* The digits' value, held at MaxInt + 2 once it is past every i64.
RECURSIVE DigitsValue(_)
DigitsValue(s) ==
    IF s = <<>> THEN 0
    ELSE LET v == 10 * DigitsValue(SubSeq(s, 1, Len(s) - 1)) + (s[Len(s)] - 48)
         IN  IF v > MaxInt + 1 THEN MaxInt + 2 ELSE v
ParseI64(s) ==
    LET signed == s # <<>> /\ s[1] \in {43, 45}
        digits == IF signed THEN Tail(s) ELSE s
        wellFormed == digits # <<>>
                        /\ \A i \in 1..Len(digits) : digits[i] \in 48..57
        value == IF signed /\ s[1] = 45 THEN 0 - DigitsValue(digits)
                 ELSE DigitsValue(digits)
    IN  IF wellFormed /\ InRange(value)
        THEN [ok |-> TRUE, value |-> value]
        ELSE [ok |-> FALSE, value |-> 0]

\* Rc::new: the heap with one more cell; its handle is the new length.
Alloc(h, cell) == Append(h, cell)

\* What a built-in returns: the panic message ("" when it returns), the heap,
\* the handle of the result and the streams.
Ret(h, value, inp, out) ==
    [panic |-> "", heap |-> h, value |-> value, input |-> inp, output |-> out]
RetNew(h, cell, inp, out) == Ret(Alloc(h, cell), Len(h) + 1, inp, out)
Abort(msg, h, inp, out) ==
    [panic |-> msg, heap |-> h, value |-> 0, input |-> inp, output |-> out]

\* Value::rc_unit, Value::rc_from_bool, Value::rc_from_i64
rc_unit == VPack(0, <<>>)
rc_from_bool(b) == VPack(IF b THEN 1 ELSE 0, <<>>)
rc_from_i64(n) == VNum(n)

\* An arithmetic result: kept when it fits; otherwise a panic with overflow
\* checks on and the wrapped value with them off.
Arith(x, oc, h, inp, out) ==
    IF InRange(x) THEN RetNew(h, rc_from_i64(x), inp, out)
    ELSE IF oc THEN Abort("arithmetic overflow", h, inp, out)
    ELSE RetNew(h, rc_from_i64(Wrap(x)), inp, out)

\* putc writing the byte itself.
putc_raw_byte(a, h, inp, out) == RetNew(h, rc_unit, inp, out \o <<a % 256>>)

\* External::putc: write!(output, "{}", n as u8 as char)
putc(a, h, inp, out) == RetNew(h, rc_unit, inp, out \o Utf8(a % 256))

\* External::geti: read_line, trim, parse
geti(h, inp, out) ==
    LET k == LineLen(inp, 1)
        line == SubSeq(inp, 1, k)
        rest == SubSeq(inp, k + 1, Len(inp))
        parsed == ParseI64(Trim(line))
    IN  IF ~IsUtf8(line) THEN Abort("Failed to read line", h, rest, out)
        ELSE IF ~parsed.ok THEN Abort("Input not a number", h, rest, out)
        ELSE RetNew(h, rc_from_i64(parsed.value), rest, out)

\* getc with the failed read left to unwrap.
getc_unwrap(h, inp, out) ==
    IF inp # <<>> THEN RetNew(h, rc_from_i64(inp[1]), Tail(inp), out)
    ELSE Abort("failed to fill whole buffer", h, inp, out)

\* External::getc: read_exact of one byte, -1 when it fails
getc(h, inp, out) ==
    IF inp # <<>> THEN RetNew(h, rc_from_i64(inp[1]), Tail(inp), out)
    ELSE RetNew(h, rc_from_i64(0 - 1), inp, out)

\* Value::eval_external
eval_external(name, args, h, inp, out, oc) ==
    LET n == ExternalArity(name)
        isNum(i) == h[args[i]].val = "Num"
        a == h[args[1]].int
        b == h[args[2]].int
        numeric == name \notin {"geti", "getc", "seq"}
    IN  IF Len(args) # n THEN Abort("Found arguments for", h, inp, out)
        ELSE IF numeric /\ \E i \in 1..n : ~isNum(i)
             THEN Abort("Expected Int", h, inp, out)
        ELSE CASE name = "add" -> Arith(a + b, oc, h, inp, out)
               [] name = "sub" -> Arith(a - b, oc, h, inp, out)
               [] name = "mul" -> Arith(a * b, oc, h, inp, out)
               [] name = "neg" -> Arith(0 - a, oc, h, inp, out)
               [] name = "eq" -> RetNew(h, rc_from_bool(a = b), inp, out)
               [] name = "le" -> RetNew(h, rc_from_bool(a <= b), inp, out)
               [] name = "lt" -> RetNew(h, rc_from_bool(a < b), inp, out)
               [] name = "gt" -> RetNew(h, rc_from_bool(a > b), inp, out)
               [] name = "ge" -> RetNew(h, rc_from_bool(a >= b), inp, out)
               [] name = "chr" -> RetNew(h, rc_from_i64(a % 256), inp, out)
               [] name = "ord" -> RetNew(h, rc_from_i64(a), inp, out)
               [] name = "puti" ->
                    RetNew(h, rc_unit, inp, out \o DisplayI64(a) \o <<10>>)
               [] name = "putc" -> putc(a, h, inp, out)
               [] name = "geti" -> geti(h, inp, out)
               [] name = "getc" -> getc(h, inp, out)
               [] name = "seq" -> Ret(h, args[2], inp, out)

\* ------------------------------------------------- cek.rs: the state

VARIABLES
    module,           \* the Module the run borrows: name -> Lambda
    entry,            \* the expression State::from_expr was given
    stdin,            \* the byte stream the run was given
    overflow_checks,  \* the build: whether integer overflow panics or wraps
    ctrl,             \* State::ctrl, per run
    env,              \* State::env: Env::stack, bottom first, per run
    kont,             \* State::kont, top last, per run
    heap,             \* the Rc<Value> cells allocated so far, per run
    input,            \* the bytes not yet read, per run
    output,           \* the bytes written, per run
    pc,               \* where run() is: "loop", "returned" or "panicked"
    count,            \* run()'s counter, per run
    panic,            \* the message of the panic that ended the run, or ""
    invoked,          \* history: how many times step was entered, per run
    kenv              \* history: for each frame of kont, the environment
                      \* that was current when its expression was met

vars == <<module, entry, stdin, overflow_checks, ctrl, env, kont, heap, input, output,
          pc, count, panic, invoked, kenv>>

\* a - b on usize: below zero it panics with overflow checks on and wraps
\* with them off.
UsizeSub(a, b, oc) ==
    IF b <= a THEN [panic |-> "", value |-> a - b]
    ELSE IF oc THEN [panic |-> "attempt to subtract with overflow", value |-> 0]
    ELSE [panic |-> "", value |-> a - b + UsizeMax + 1]

\* Env::get counting idx from the bottom of the stack.
EnvGetFromBottom(e, idx, oc) ==
    IF idx = 0 \/ idx > Len(e)
    THEN [panic |-> "Bad de Bruijn index", value |-> 0]
    ELSE [panic |-> "", value |-> e[idx]]

\* Env::get: stack.get(len - idx), Vec::get counting from 0 at the bottom.
EnvGet(e, idx, oc) ==
    LET at == UsizeSub(Len(e), idx, oc)
    IN  IF at.panic # "" THEN [panic |-> at.panic, value |-> 0]
        ELSE IF at.value >= Len(e)
        THEN [panic |-> "Bad de Bruijn index", value |-> 0]
        ELSE [panic |-> "", value |-> e[at.value + 1]]

\* Env::push putting the value under the stack instead of on top.
EnvPushBottom(e, value) == <<value>> \o e

\* Env::push
EnvPush(e, value) == Append(e, value)

\* Env::push_many pushing the last argument first.
EnvPushManyReversed(e, args) ==
    e \o [i \in 1..Len(args) |-> args[(Len(args) + 1) - i]]

\* Env::push_many
EnvPushMany(e, args) == e \o args

\* Env::pop truncating to count entries instead of by count entries.
EnvPopToCount(e, n, oc) ==
    [panic |-> "", env |-> IF n >= Len(e) THEN e ELSE SubSeq(e, 1, n)]

\* Env::pop: truncate(len - count); Vec::truncate to no less than the length
\* leaves the stack as it is.
EnvPop(e, n, oc) ==
    LET new_len == UsizeSub(Len(e), n, oc)
    IN  IF new_len.panic # "" THEN [panic |-> new_len.panic, env |-> e]
        ELSE IF new_len.value >= Len(e) THEN [panic |-> "", env |-> e]
        ELSE [panic |-> "", env |-> SubSeq(e, 1, new_len.value)]

\* is_final without the look at the continuation stack.
is_final_any_stack(r) ==
    /\ ctrl[r].kind = "Value"
    /\ heap[r][ctrl[r].value].val \in {"Num", "Pack"}

\* is_final with the Pack case forgotten.
is_final_num_only(r) ==
    /\ ctrl[r].kind = "Value"
    /\ heap[r][ctrl[r].value].val = "Num"
    /\ kont[r] = <<>>

\* is_final taking every value over an empty stack for final, a PAP too.
is_final_any_value(r) ==
    /\ ctrl[r].kind = "Value"
    /\ kont[r] = <<>>

\* State::is_final
is_final(r) ==
    /\ ctrl[r].kind = "Value"
    /\ heap[r][ctrl[r].value].val \in {"Num", "Pack"}
    /\ kont[r] = <<>>

\* The body of run()'s loop is entered: the state is not final.
Stepping(r) == pc[r] = "loop" /\ ~is_final(r) /\ count[r] < MaxSteps

\* The frame Vec::pop takes, and the stack it leaves.
TopFrame(r) == kont[r][Len(kont[r])]
Popped(r) == SubSeq(kont[r], 1, Len(kont[r]) - 1)

\* Returning without the look at the PAP's missing count: the frame is
\* popped under a saturated PAP as under any value.
ReturningAnyValue(r) ==
    /\ Stepping(r)
    /\ ctrl[r].kind = "Value"

\* The control is a value that does not fire: the step pops a frame.
Returning(r) ==
    /\ Stepping(r)
    /\ ctrl[r].kind = "Value"
    /\ ~(heap[r][ctrl[r].value].val = "PAP" /\ heap[r][ctrl[r].value].missing = 0)

\* The control is a saturated PAP: the step fires it.
Firing(r) ==
    /\ Stepping(r)
    /\ ctrl[r].kind = "Value"
    /\ heap[r][ctrl[r].value].val = "PAP"
    /\ heap[r][ctrl[r].value].missing = 0

\* The control is an expression of the given variant.
Reducing(r, node) ==
    /\ Stepping(r)
    /\ ctrl[r].kind = "Expr"
    /\ ctrl[r].expr.node = node

\* History of the frames: a frame the step leaves in place keeps its entry,
\* an Args frame that replaces an Args frame inherits it (the rest of the
\* same application), and a frame the step pushes records the environment
\* the step started in.
Recorded(r, k) ==
    [i \in 1..Len(k) |->
        IF i <= Len(kont[r])
           /\ (k[i] = kont[r][i]
               \/ (k[i].frame = "Args" /\ kont[r][i].frame = "Args"))
        THEN kenv[r][i]
        ELSE env[r]]

\* step returns: the new control is written back and run() counts the step.
Commit(r, c, e, k, h, inp, out) ==
    /\ ctrl' = [ctrl EXCEPT ![r] = c]
    /\ kenv' = [kenv EXCEPT ![r] = Recorded(r, k)]
    /\ env' = [env EXCEPT ![r] = e]
    /\ kont' = [kont EXCEPT ![r] = k]
    /\ heap' = [heap EXCEPT ![r] = h]
    /\ input' = [input EXCEPT ![r] = inp]
    /\ output' = [output EXCEPT ![r] = out]
    /\ count' = [count EXCEPT ![r] = @ + 1]
    /\ invoked' = [invoked EXCEPT ![r] = @ + 1]
    /\ UNCHANGED <<module, entry, stdin, overflow_checks, pc, panic>>

\* step panics: the control stays Evaluating, the loop is left by unwinding.
Panic(r, msg, e, k, h, inp, out) ==
    /\ ctrl' = [ctrl EXCEPT ![r] = CtrlEvaluating]
    /\ kenv' = [kenv EXCEPT ![r] = Recorded(r, k)]
    /\ env' = [env EXCEPT ![r] = e]
    /\ kont' = [kont EXCEPT ![r] = k]
    /\ heap' = [heap EXCEPT ![r] = h]
    /\ input' = [input EXCEPT ![r] = inp]
    /\ output' = [output EXCEPT ![r] = out]
    /\ pc' = [pc EXCEPT ![r] = "panicked"]
    /\ panic' = [panic EXCEPT ![r] = msg]
    /\ invoked' = [invoked EXCEPT ![r] = @ + 1]
    /\ UNCHANGED <<module, entry, stdin, overflow_checks, count>>

\* Ctrl::from_prim
from_prim(h, prim, arity) == Alloc(h, VPAP(prim, <<>>, arity))

\* ------------------------------------------------- cek.rs: State::step

\* Ctrl::Expr(Expr::Local { idx, .. })
StepLocal(r) ==
    /\ Reducing(r, "Local")
    /\ LET got == EnvGet(env[r], ctrl[r].expr.idx, overflow_checks)
       IN  IF got.panic # ""
           THEN Panic(r, got.panic, env[r], kont[r], heap[r], input[r], output[r])
           ELSE Commit(r, CtrlValue(got.value), env[r], kont[r], heap[r],
                       input[r], output[r])

\* Ctrl::Expr(Expr::Global { name })
StepGlobal(r) ==
    /\ Reducing(r, "Global")
    /\ LET name == ctrl[r].expr.name
       IN  IF name \notin DOMAIN module
           THEN Panic(r, "Unknown global", env[r], kont[r], heap[r], input[r],
                      output[r])
           ELSE LET lam == module[name]
                    h == from_prim(heap[r], PrimGlobal(name, lam), Len(lam.binds))
                IN  Commit(r, CtrlValue(Len(h)), env[r], kont[r], h, input[r],
                           output[r])

\* Ctrl::Expr(Expr::External { name })
StepExternal(r) ==
    /\ Reducing(r, "External")
    /\ LET name == ctrl[r].expr.name
           h == from_prim(heap[r], PrimExternal(name), ExternalArity(name))
       IN  Commit(r, CtrlValue(Len(h)), env[r], kont[r], h, input[r], output[r])

\* Ctrl::Expr(&Expr::Pack { tag, arity })
StepPack(r) ==
    /\ Reducing(r, "Pack")
    /\ LET e == ctrl[r].expr
           h == from_prim(heap[r], PrimPack(e.tag, e.arity), e.arity)
       IN  Commit(r, CtrlValue(Len(h)), env[r], kont[r], h, input[r], output[r])

\* Ctrl::Expr(&Expr::Num { int })
StepNum(r) ==
    /\ Reducing(r, "Num")
    /\ LET h == Alloc(heap[r], rc_from_i64(ctrl[r].expr.int))
       IN  Commit(r, CtrlValue(Len(h)), env[r], kont[r], h, input[r], output[r])

\* Ctrl::Expr(Expr::Ap { fun, args })
StepAp(r) ==
    /\ Reducing(r, "Ap")
    /\ Commit(r, CtrlExpr(ctrl[r].expr.fun), env[r],
              Append(kont[r], KArgs(ctrl[r].expr.args)), heap[r], input[r],
              output[r])

\* Ctrl::Expr(Expr::Let { defn, body })
StepLet(r) ==
    /\ Reducing(r, "Let")
    /\ Commit(r, CtrlExpr(ctrl[r].expr.rhs), env[r],
              Append(kont[r], KLet(ctrl[r].expr.lhs, ctrl[r].expr.body)),
              heap[r], input[r], output[r])

\* Ctrl::Expr(Expr::Match { expr, altns })
StepMatch(r) ==
    /\ Reducing(r, "Match")
    /\ Commit(r, CtrlExpr(ctrl[r].expr.expr), env[r],
              Append(kont[r], KMatch(ctrl[r].expr.altns)), heap[r], input[r],
              output[r])

\* FireGlobal pushing the arguments on the caller's environment instead of
\* a new one.
FireGlobalOnCallerEnv(r) ==
    /\ Firing(r)
    /\ heap[r][ctrl[r].value].prim.prim = "Global"
    /\ LET v == heap[r][ctrl[r].value]
           new_env == EnvPushMany(env[r], v.args)
       IN  Commit(r, CtrlExpr(v.prim.lam.body), new_env,
                  Append(kont[r], KDump(env[r])), heap[r], input[r], output[r])

\* FireGlobal saving the callee's new environment in the Dump frame instead
\* of the caller's.
FireGlobalDumpsNewEnv(r) ==
    /\ Firing(r)
    /\ heap[r][ctrl[r].value].prim.prim = "Global"
    /\ LET v == heap[r][ctrl[r].value]
           new_env == EnvPushMany(<<>>, v.args)
       IN  Commit(r, CtrlExpr(v.prim.lam.body), new_env,
                  Append(kont[r], KDump(new_env)), heap[r], input[r], output[r])

\* Value::PAP(prim, args, 0), Prim::Global(_name, lam)
FireGlobal(r) ==
    /\ Firing(r)
    /\ heap[r][ctrl[r].value].prim.prim = "Global"
    /\ LET v == heap[r][ctrl[r].value]
           new_env == EnvPushMany(<<>>, v.args)
       IN  Commit(r, CtrlExpr(v.prim.lam.body), new_env,
                  Append(kont[r], KDump(env[r])), heap[r], input[r], output[r])

\* FireExternal reading the one standard input of the process instead of the
\* reader the run was given: what a run reads is gone for every run.
FireExternalSharedInput(r) ==
    /\ Firing(r)
    /\ heap[r][ctrl[r].value].prim.prim = "External"
    /\ LET v == heap[r][ctrl[r].value]
           res == eval_external(v.prim.name, v.args, heap[r], input[r],
                                output[r], overflow_checks)
       IN  /\ res.panic = ""
           /\ ctrl' = [ctrl EXCEPT ![r] = CtrlValue(res.value)]
           /\ heap' = [heap EXCEPT ![r] = res.heap]
           /\ input' = [q \in Runs |-> res.input]
           /\ output' = [output EXCEPT ![r] = res.output]
           /\ count' = [count EXCEPT ![r] = @ + 1]
           /\ invoked' = [invoked EXCEPT ![r] = @ + 1]
           /\ UNCHANGED <<module, entry, stdin, overflow_checks, env, kont, pc,
                          panic, kenv>>

\* Value::PAP(prim, args, 0), Prim::External(name)
FireExternal(r) ==
    /\ Firing(r)
    /\ heap[r][ctrl[r].value].prim.prim = "External"
    /\ LET v == heap[r][ctrl[r].value]
           res == eval_external(v.prim.name, v.args, heap[r], input[r],
                                output[r], overflow_checks)
       IN  IF res.panic # ""
           THEN Panic(r, res.panic, env[r], kont[r], res.heap, res.input,
                      res.output)
           ELSE Commit(r, CtrlValue(res.value), env[r], kont[r], res.heap,
                       res.input, res.output)

\* FirePack with a fresh, empty vector in place of the collected arguments.
FirePackNoArgs(r) ==
    /\ Firing(r)
    /\ heap[r][ctrl[r].value].prim.prim = "Pack"
    /\ LET v == heap[r][ctrl[r].value]
           h == Alloc(heap[r], VPack(v.prim.tag, <<>>))
       IN  Commit(r, CtrlValue(Len(h)), env[r], kont[r], h, input[r], output[r])

\* Value::PAP(prim, args, 0), Prim::Pack(tag, _arity)
FirePack(r) ==
    /\ Firing(r)
    /\ heap[r][ctrl[r].value].prim.prim = "Pack"
    /\ LET v == heap[r][ctrl[r].value]
           h == Alloc(heap[r], VPack(v.prim.tag, v.args))
       IN  Commit(r, CtrlValue(Len(h)), env[r], kont[r], h, input[r], output[r])

\* The popped frame is of the given variant.
Popping(r, frame) ==
    /\ Returning(r)
    /\ kont[r] # <<>>
    /\ TopFrame(r).frame = frame

\* PopDump returning before the control is written back.
PopDumpNoWriteBack(r) ==
    /\ Popping(r, "Dump")
    /\ Commit(r, CtrlEvaluating, TopFrame(r).env, Popped(r), heap[r], input[r],
              output[r])

\* PopDump dropping the saved environment instead of restoring it.
PopDumpKeepsEnv(r) ==
    /\ Popping(r, "Dump")
    /\ Commit(r, CtrlValue(ctrl[r].value), env[r], Popped(r), heap[r], input[r],
              output[r])

\* Kont::Dump(env)
PopDump(r) ==
    /\ Popping(r, "Dump")
    /\ Commit(r, CtrlValue(ctrl[r].value), TopFrame(r).env, Popped(r), heap[r],
              input[r], output[r])

\* Kont::Pop(count)
PopPop(r) ==
    /\ Popping(r, "Pop")
    /\ LET res == EnvPop(env[r], TopFrame(r).count, overflow_checks)
       IN  IF res.panic # ""
           THEN Panic(r, res.panic, env[r], Popped(r), heap[r], input[r],
                      output[r])
           ELSE Commit(r, CtrlValue(ctrl[r].value), res.env, Popped(r), heap[r],
                       input[r], output[r])

\* PopArgs taking the arguments from the far end: split_last for split_first.
PopArgsLastFirst(r) ==
    /\ Popping(r, "Args")
    /\ LET v == heap[r][ctrl[r].value]
           next_args == TopFrame(r).args
       IN  IF v.val # "PAP"
           THEN Panic(r, "Applying value", env[r], Popped(r), heap[r], input[r],
                      output[r])
           ELSE IF next_args = <<>>
           THEN Panic(r, "Empty Args", env[r], Popped(r), heap[r], input[r],
                      output[r])
           ELSE LET next_arg == next_args[Len(next_args)]
                    rest == SubSeq(next_args, 1, Len(next_args) - 1)
                    k1 == IF rest # <<>> THEN Append(Popped(r), KArgs(rest))
                          ELSE Popped(r)
                    k2 == Append(k1, KFun(v.prim, v.args, v.missing))
                IN  Commit(r, CtrlExpr(next_arg), env[r], k2, heap[r], input[r],
                           output[r])

\* PopArgs taking an empty argument list for an application to nothing: the
\* value is passed on.
PopArgsSkipsEmpty(r) ==
    /\ Popping(r, "Args")
    /\ LET v == heap[r][ctrl[r].value]
           next_args == TopFrame(r).args
       IN  IF v.val # "PAP"
           THEN Panic(r, "Applying value", env[r], Popped(r), heap[r], input[r],
                      output[r])
           ELSE IF next_args = <<>>
           THEN Commit(r, CtrlValue(ctrl[r].value), env[r], Popped(r), heap[r],
                       input[r], output[r])
           ELSE LET next_arg == Head(next_args)
                    rest == Tail(next_args)
                    k1 == IF rest # <<>> THEN Append(Popped(r), KArgs(rest))
                          ELSE Popped(r)
                    k2 == Append(k1, KFun(v.prim, v.args, v.missing))
                IN  Commit(r, CtrlExpr(next_arg), env[r], k2, heap[r], input[r],
                           output[r])

\* Kont::Args(next_args)
PopArgs(r) ==
    /\ Popping(r, "Args")
    /\ LET v == heap[r][ctrl[r].value]
           next_args == TopFrame(r).args
       IN  IF v.val # "PAP"
           THEN Panic(r, "Applying value", env[r], Popped(r), heap[r], input[r],
                      output[r])
           ELSE IF next_args = <<>>
           THEN Panic(r, "Empty Args", env[r], Popped(r), heap[r], input[r],
                      output[r])
           ELSE LET next_arg == Head(next_args)
                    rest == Tail(next_args)
                    k1 == IF rest # <<>> THEN Append(Popped(r), KArgs(rest))
                          ELSE Popped(r)
                    k2 == Append(k1, KFun(v.prim, v.args, v.missing))
                IN  Commit(r, CtrlExpr(next_arg), env[r], k2, heap[r], input[r],
                           output[r])

\* PushArg with the frame's vector shared with the PAP it was taken from:
\* the push shows in every cell that holds that vector.
PushArgShared(h, f, v, missing) ==
    LET shares(a) == /\ h[a].val = "PAP"
                     /\ h[a].prim = f.prim
                     /\ h[a].args = f.args
                     /\ h[a].missing = f.missing
        pushed == [a \in DOMAIN h |->
                      IF shares(a) THEN [h[a] EXCEPT !.args = Append(@, v)]
                      ELSE h[a]]
    IN  Alloc(pushed, VPAP(f.prim, Append(f.args, v), missing))

\* PushArg putting the new argument in front of the collected ones.
PushArgFront(h, f, v, missing) ==
    Alloc(h, VPAP(f.prim, <<v>> \o f.args, missing))

\* args2.push(Rc::clone(&v)); Rc::new(Value::PAP(prim2, args2, missing)): the
\* frame's own vector grows and becomes the vector of a new cell.
PushArg(h, f, v, missing) == Alloc(h, VPAP(f.prim, Append(f.args, v), missing))

\* PopFun with the count of missing arguments carried over as it is.
PopFunKeepsMissing(r) ==
    /\ Popping(r, "Fun")
    /\ LET f == TopFrame(r)
           h == PushArg(heap[r], f, ctrl[r].value, f.missing)
       IN  Commit(r, CtrlValue(Len(h)), env[r], Popped(r), h, input[r],
                  output[r])

\* Kont::Fun(prim2, mut args2, missing2)
PopFun(r) ==
    /\ Popping(r, "Fun")
    /\ LET f == TopFrame(r)
           m == UsizeSub(f.missing, 1, overflow_checks)
       IN  IF m.panic # ""
           THEN Panic(r, m.panic, env[r], Popped(r), heap[r], input[r],
                      output[r])
           ELSE LET h == PushArg(heap[r], f, ctrl[r].value, m.value)
                IN  Commit(r, CtrlValue(Len(h)), env[r], Popped(r), h, input[r],
                           output[r])

\* Kont::Match(altns)
PopMatch(r) ==
    /\ Popping(r, "Match")
    /\ LET v == heap[r][ctrl[r].value]
           altns == TopFrame(r).altns
       IN  IF v.val # "Pack"
           THEN Panic(r, "Pattern match on non-data value", env[r], Popped(r),
                      heap[r], input[r], output[r])
           ELSE IF v.tag >= Len(altns)
           THEN Panic(r, "index out of bounds", env[r], Popped(r), heap[r],
                      input[r], output[r])
           ELSE Commit(r, CtrlExpr(altns[v.tag + 1].rhs),
                       EnvPushMany(env[r], v.args),
                       Append(Popped(r), KPop(Len(v.args))), heap[r], input[r],
                       output[r])

\* Kont::Let(_name, body)
PopLet(r) ==
    /\ Popping(r, "Let")
    /\ Commit(r, CtrlExpr(TopFrame(r).body), EnvPush(env[r], ctrl[r].value),
              Append(Popped(r), KPop(1)), heap[r], input[r], output[r])

\* The two arms that only panic: Ctrl::Evaluating, and a value that does not
\* fire met with an empty continuation stack.
StepFatal(r) ==
    /\ Stepping(r)
    /\ IF ctrl[r].kind = "Evaluating" THEN TRUE
       ELSE Returning(r) /\ kont[r] = <<>>
    /\ Panic(r, IF ctrl[r].kind = "Evaluating"
                THEN "Control was not update after last step"
                ELSE "Step on final state",
             env[r], kont[r], heap[r], input[r], output[r])

\* State::step
step(r) ==
    \/ StepLocal(r)
    \/ StepGlobal(r)
    \/ StepExternal(r)
    \/ StepPack(r)
    \/ StepNum(r)
    \/ StepAp(r)
    \/ StepLet(r)
    \/ StepMatch(r)
    \/ FireGlobal(r)
    \/ FireExternal(r)
    \/ FirePack(r)
    \/ PopDump(r)
    \/ PopPop(r)
    \/ PopArgs(r)
    \/ PopFun(r)
    \/ PopMatch(r)
    \/ PopLet(r)
    \/ StepFatal(r)

\* State::run leaves its loop and returns count.
Return(r) ==
    /\ pc[r] = "loop"
    /\ is_final(r)
    /\ pc' = [pc EXCEPT ![r] = "returned"]
    /\ UNCHANGED <<module, entry, stdin, overflow_checks, ctrl, env, kont, heap, input,
                   output, count, panic, invoked, kenv>>

\* State::run
run(r) == step(r) \/ Return(r)

\* ------------------------------------------------- the programs run

\* A module with no definition.
EmptyModule == [name \in {} |-> Lambda(<<>>, Num(0))]

Unit == PackE(0, 0)

\* main u = let c = getc u in
\*          match lt c 0 { false -> seq (putc c) (main u); true -> unit }
EchoBody ==
    Let("c", Ap(External("getc"), <<Local(1)>>),
        Match(Ap(External("lt"), <<Local(1), Num(0)>>),
              <<Altn(<<>>, Ap(External("seq"),
                              <<Ap(External("putc"), <<Local(1)>>),
                                Ap(Global("main"), <<Local(2)>>)>>)),
                Altn(<<>>, Unit)>>))

\* The module the programs of the model are run against.
Lib ==
    ("id" :> Lambda(<<"x">>, Local(1)))
    @@ ("k" :> Lambda(<<"x", "y">>, Local(2)))
    @@ ("caf" :> Lambda(<<>>, Num(7)))
    @@ ("twice" :> Lambda(<<"f", "x">>,
                          Ap(Local(2), <<Ap(Local(2), <<Local(1)>>)>>)))
    @@ ("swap" :> Lambda(<<"p">>,
                         Match(Local(1),
                               <<Altn(<<"a", "b">>,
                                      Ap(PackE(0, 2), <<Local(1), Local(2)>>))>>)))
    @@ ("loop" :> Lambda(<<"x">>, Ap(Global("loop"), <<Local(1)>>)))
    @@ ("main" :> Lambda(<<"u">>, EchoBody))

Prog(m, e, inp) == [module |-> m, entry |-> e, input |-> inp]

Puti(e) == Ap(External("puti"), <<e>>)

\* Entries that evaluate to a literal: a number, a constructor without
\* fields, or a constructor applied to as many literals as it has fields.
LiteralAtoms == {Num(3), Num(0 - 5), Num(MinInt), Num(MaxInt), Unit, PackE(1, 0)}

ShallowLiterals ==
    LiteralAtoms
    \cup {Ap(PackE(t, 1), <<a>>) : t \in {0, 1}, a \in LiteralAtoms}
    \cup {Ap(PackE(t, 2), <<a, b>>) :
            t \in {0, 1}, a \in LiteralAtoms, b \in LiteralAtoms}

Literals ==
    ShallowLiterals
    \cup {Ap(PackE(0, 1), <<a>>) : a \in ShallowLiterals}
    \cup {Ap(PackE(1, 2), <<a, b>>) : a \in LiteralAtoms, b \in ShallowLiterals}

LiteralPrograms == {Prog(EmptyModule, e, <<>>) : e \in Literals}

\* Programs that read and write.
IoPrograms ==
    {Prog(Lib, entry_point, inp) : inp \in {<<>>, <<97>>, <<97, 98>>, <<200>>}}
    \cup {Prog(EmptyModule,
               Ap(External("seq"), <<Puti(Num(1)), Puti(Num(2))>>), <<>>)}
    \cup {Prog(EmptyModule,
               Ap(External("sub"), <<Ap(External("getc"), <<Unit>>),
                                     Ap(External("getc"), <<Unit>>)>>), inp) :
            inp \in {<<5, 3>>, <<3, 5>>, <<7>>}}
    \cup {Prog(EmptyModule, Puti(Ap(External("geti"), <<Unit>>)), inp) :
            inp \in {<<55, 10>>, <<45, 49, 50>>, <<120, 10>>, <<>>,
                     <<32, 53, 32, 10, 54>>, <<43, 51, 10>>, <<45, 10>>,
                     <<200, 10>>, <<57, 57, 57, 57, 57, 10>>,
                     <<194, 160, 56, 194, 133, 10>>, <<10, 52, 10>>}}
    \cup {Prog(EmptyModule,
               Ap(External("putc"), <<Ap(External("getc"), <<Unit>>)>>), inp) :
            inp \in {<<65>>, <<200>>, <<>>, <<255, 0>>}}

\* Applications whose arguments each read or write: puti of a literal, puti
\* of the next input byte, and seq or a constructor over such arguments.
Effects ==
    {Puti(Num(1)), Puti(Num(2)), Puti(Ap(External("getc"), <<Unit>>))}

OrderedEntries ==
    {Ap(External("seq"), <<a, b>>) : a \in Effects, b \in Effects}
    \cup {Ap(PackE(0, 3), <<a, b, c>>) :
            a \in Effects, b \in Effects, c \in Effects}
    \cup {Ap(External("seq"), <<Ap(External("seq"), <<a, b>>), c>>) :
            a \in Effects, b \in Effects, c \in Effects}
    \cup {Ap(External("seq"), <<a, Ap(PackE(1, 2), <<b, c>>)>>) :
            a \in Effects, b \in Effects, c \in Effects}

OrderedPrograms ==
    {Prog(EmptyModule, e, inp) :
        e \in OrderedEntries, inp \in {<<7, 9>>, <<9, 7, 8>>, <<8>>, <<>>}}

\* let p = add 1 in seq (puti (p 10)) (puti (p 20))
ReuseEntry ==
    Let("p", Ap(External("add"), <<Num(1)>>),
        Ap(External("seq"), <<Puti(Ap(Local(1), <<Num(10)>>)),
                              Puti(Ap(Local(1), <<Num(20)>>))>>))

\* let x = 5 in id add x x
OverApplyEntry ==
    Let("x", Num(5), Ap(Global("id"), <<External("add"), Local(1), Local(1)>>))

\* let x = 1 in match swap (Pack0(x, 2)) { (a, b) -> a - x }
SwapMatchEntry ==
    Let("x", Num(1),
        Match(Ap(Global("swap"), <<Ap(PackE(0, 2), <<Local(1), Num(2)>>)>>),
              <<Altn(<<"a", "b">>,
                     Ap(External("sub"), <<Local(2), Local(3)>>))>>))

\* let p = f 11 .. (10 + n) in (): a primitive applied to no more arguments
\* than its arity.
ApplyEntries ==
    {Let("p", Ap(f, SubSeq(<<Num(11), Num(12), Num(13)>>, 1, n)), Unit) :
        f \in {External("add"), PackE(1, 3), Global("k"), Global("id")},
        n \in 1..3}

\* let x = 9 in match Pack_t(21 .. 20 + t) { () -> puti 100;
\*   (a) -> puti 101; (a, b) -> puti 102 }: each alternative writes its own
\* number.
MatchAltns ==
    <<Altn(<<>>, Puti(Num(100))), Altn(<<"a">>, Puti(Num(101))),
      Altn(<<"a", "b">>, Puti(Num(102)))>>

MatchEntry(t) ==
    Let("x", Num(9),
        Match(IF t = 0 THEN PackE(0, 0)
              ELSE Ap(PackE(t, t), SubSeq(<<Num(21), Num(22)>>, 1, t)),
              MatchAltns))

MatchEntries == {MatchEntry(t) : t \in 0..2}

\* let x = seq (puti 1) 5 in puti (x + 1)
LetEffectEntry ==
    Let("x", Ap(External("seq"), <<Puti(Num(1)), Num(5)>>),
        Puti(Ap(External("add"), <<Local(1), Num(1)>>)))

\* match seq (puti 1) Pack1 { () -> puti 100; () -> puti 2 }
MatchEffectEntry ==
    Match(Ap(External("seq"), <<Puti(Num(1)), PackE(1, 0)>>),
          <<Altn(<<>>, Puti(Num(100))), Altn(<<>>, Puti(Num(2)))>>)

\* let x = getc () in let y = getc () in puti (x - y)
LetShiftEntry ==
    Let("x", Ap(External("getc"), <<Unit>>),
        Let("y", Ap(External("getc"), <<Unit>>),
            Puti(Ap(External("sub"), <<Local(2), Local(1)>>))))

\* What each of them writes on the input bytes 9, 4.
OrderedOutput(e) ==
    CASE e = LetEffectEntry -> <<49, 10, 54, 10>>
      [] e = MatchEffectEntry -> <<49, 10, 50, 10>>
      [] e = LetShiftEntry -> <<53, 10>>

BindingPrograms ==
    {Prog(Lib, e, <<9, 4>>) :
        e \in {LetEffectEntry, MatchEffectEntry, LetShiftEntry}}

\* Programs over the globals of Lib: calls, partial and over-application,
\* bindings and matches.
CallPrograms ==
    {Prog(Lib, e, <<>>) : e \in ApplyEntries \cup MatchEntries}
    \cup BindingPrograms
    \cup
    {Prog(Lib, e, <<>>) :
        e \in {Global("id"), Global("caf"), PackE(1, 2), External("add"),
               Ap(Global("twice"), <<Ap(External("add"), <<Num(1)>>), Num(10)>>),
               ReuseEntry,
               Ap(Global("swap"), <<Ap(PackE(0, 2), <<Num(1), Num(2)>>)>>),
               Ap(Global("id"), <<Global("k"), Num(1), Num(2)>>),
               OverApplyEntry,
               Ap(Global("loop"), <<Num(0)>>),
               Ap(PackE(1, 2), <<Ap(External("lt"), <<Num(1), Num(2)>>),
                                 Puti(Num(3))>>),
               Match(Ap(PackE(1, 2), <<Num(1), Num(2)>>),
                     <<Altn(<<>>, Num(0)),
                       Altn(<<"a", "b">>,
                            Ap(External("sub"), <<Local(2), Local(1)>>))>>),
               Let("x", Num(1),
                   Let("y", Ap(Global("k"), <<Local(1), Num(9)>>),
                       Ap(External("add"), <<Local(1), Local(2)>>))),
               Let("x", Num(3), Local(1)),
               SwapMatchEntry}}

\* Programs the front end must not produce, and arithmetic at the edges.
ErrorPrograms ==
    {Prog(m, e, <<>>) :
        m \in {EmptyModule, Lib},
        e \in {entry_point, Local(0), Local(1), Ap(Num(1), <<Num(2)>>),
               Ap(Unit, <<Num(2)>>), Ap(External("neg"), <<>>),
               Ap(Global("caf"), <<>>), Ap(Unit, <<>>), Ap(Num(1), <<>>),
               Ap(Ap(External("add"), <<Num(1)>>), <<>>),
               Let("x", Ap(Global("id"), <<>>), Local(1)),
               Ap(PackE(0, 2), <<Num(1), Ap(PackE(1, 1), <<>>)>>),
               Ap(Global("nope"), <<Num(1)>>),
               Match(Ap(External("add"), <<Num(1)>>), <<Altn(<<>>, Num(0))>>),
               Match(Num(1), <<Altn(<<>>, Num(0))>>),
               Match(External("neg"), <<Altn(<<>>, Num(0))>>),
               Match(PackE(2, 0), <<Altn(<<>>, Num(0)), Altn(<<>>, Num(1))>>),
               Match(Unit, <<>>),
               Ap(External("add"), <<Num(MaxInt), Num(1)>>),
               Ap(External("sub"), <<Num(MinInt), Num(1)>>),
               Ap(External("mul"), <<Num(MaxInt), Num(MaxInt)>>),
               Ap(External("neg"), <<Num(MinInt)>>),
               Ap(External("add"), <<Unit, Num(1)>>),
               Ap(External("putc"), <<Num(0 - 1)>>)}}

\* Every expression of one level over the atoms, run where two locals are
\* bound: let a = 1 in let f = add 2 in <expression>.
Atoms ==
    {Local(i) : i \in 0..MaxIdx}
    \cup {Global("id"), Global("k"), Global("nope"), External("add"),
          External("puti"), External("getc"), Unit, PackE(1, 2), Num(1)}

Shallow ==
    Atoms
    \cup {Ap(f, <<a>>) : f \in Atoms, a \in Atoms}
    \cup {Ap(f, <<a, b>>) : f \in Atoms, a \in Atoms, b \in Atoms}
    \cup {Let("v", a, b) : a \in Atoms, b \in Atoms}
    \cup {Match(a, <<Altn(<<>>, b), Altn(<<"a", "b">>, c)>>) :
            a \in Atoms, b \in Atoms, c \in Atoms}

Bound(e) == Let("a", Num(1), Let("f", Ap(External("add"), <<Num(2)>>), e))

ShallowPrograms == {Prog(Lib, Bound(e), <<53, 10>>) : e \in Shallow}

CorePrograms ==
    LiteralPrograms \cup IoPrograms \cup OrderedPrograms \cup CallPrograms
    \cup ErrorPrograms

Programs == CorePrograms \cup ShallowPrograms

\* ------------------------------------------------- the specifications

\* State::from_expr, for both runs of one program under one build.
Start(programs) ==
    \E p \in programs, oc \in BOOLEAN :
        /\ module = p.module
        /\ entry = p.entry
        /\ stdin = p.input
        /\ overflow_checks = oc
        /\ ctrl = [r \in Runs |-> CtrlExpr(p.entry)]
        /\ env = [r \in Runs |-> <<>>]
        /\ kont = [r \in Runs |-> <<>>]
        /\ heap = [r \in Runs |-> <<>>]
        /\ input = [r \in Runs |-> p.input]
        /\ output = [r \in Runs |-> <<>>]
        /\ pc = [r \in Runs |-> "loop"]
        /\ count = [r \in Runs |-> 0]
        /\ panic = [r \in Runs |-> ""]
        /\ invoked = [r \in Runs |-> 0]
        /\ kenv = [r \in Runs |-> <<>>]

Init == Start(Programs)

\* One run of the program.
Next == run(1)

Spec == Init /\ [][Next]_vars

\* The programs run to their end under fairness: every literal entry, and
\* programs that bind, match, call, read, write and fail.
LivePrograms ==
    LiteralPrograms \cup ErrorPrograms \cup BindingPrograms
    \cup {Prog(Lib, e, <<>>) :
            e \in ApplyEntries \cup MatchEntries
                  \cup {ReuseEntry, OverApplyEntry, SwapMatchEntry,
                        Global("id"), External("add"), PackE(1, 2)}}

\* run() is sequential code that keeps going until it returns or panics.
SpecLive == Start(LivePrograms) /\ [][Next]_vars /\ WF_vars(Next)

\* How far a run is: the steps counted, and one more once it has ended.
Progress(r) == count[r] + (IF pc[r] = "loop" THEN 0 ELSE 1)

\* Two runs of the same program on the same input, taking turns: run 1
\* moves when they are level, run 2 when it is behind.
Turn(r) ==
    IF r = 1 THEN Progress(1) = Progress(2) ELSE Progress(2) < Progress(1)

NextTwin == \E r \in Runs : Turn(r) /\ run(r)

SpecTwin == Start(CorePrograms) /\ [][NextTwin]_vars

\* ------------------------------------------------- the claims

Range(f) == {f[i] : i \in DOMAIN f}

\* The arity of a primitive: the lambda's binders, the built-in's fixed
\* arity, the arity the Pack primitive records.
PrimArity(prim) ==
    CASE prim.prim = "Global" -> Len(prim.lam.binds)
      [] prim.prim = "External" -> ExternalArity(prim.name)
      [] prim.prim = "Pack" -> prim.arity

\* Every handle the state holds: in the control, the environment, the
\* argument vectors of the cells, the saved environments and the Fun frames.
HandlesOf(r) ==
    (IF ctrl[r].kind = "Value" THEN {ctrl[r].value} ELSE {})
    \cup Range(env[r])
    \cup UNION {Range(heap[r][a].args) :
                  a \in {b \in DOMAIN heap[r] : heap[r][b].val # "Num"}}
    \cup UNION {Range(kont[r][i].env) :
                  i \in {j \in DOMAIN kont[r] : kont[r][j].frame = "Dump"}}
    \cup UNION {Range(kont[r][i].args) :
                  i \in {j \in DOMAIN kont[r] : kont[r][j].frame = "Fun"}}

ArityKept(prim, args, missing) ==
    missing >= 0 /\ Len(args) + missing = PrimArity(prim)

\* C1: in every reachable state every handle refers to a cell, and every PAP
\* cell and every Fun frame has missing >= 0 and
\* len(args) + missing = arity(prim).
C1_PapArity ==
    \A r \in Runs :
        /\ HandlesOf(r) \subseteq DOMAIN heap[r]
        /\ \A a \in DOMAIN heap[r] :
              heap[r][a].val = "PAP" =>
                  ArityKept(heap[r][a].prim, heap[r][a].args, heap[r][a].missing)
        /\ \A i \in DOMAIN kont[r] :
              kont[r][i].frame = "Fun" =>
                  ArityKept(kont[r][i].prim, kont[r][i].args, kont[r][i].missing)

\* A partial application with a collected argument is bound in the
\* environment while a Fun frame that has collected an argument waits.
C1_Witness ==
    /\ \E i \in DOMAIN env[1] :
          /\ heap[1][env[1][i]].val = "PAP"
          /\ heap[1][env[1][i]].args # <<>>
          /\ heap[1][env[1][i]].missing >= 1
    /\ \E i \in DOMAIN kont[1] :
          kont[1][i].frame = "Fun" /\ kont[1][i].args # <<>>

\* C2: every Pack cell is allocated saturated: by firing a PAP of a Pack
\* primitive, with that primitive's tag and as many arguments as its recorded
\* arity, or by a built-in, with tag 0 or 1 and no argument.
C2_PackSaturated ==
    [][\A r \in Runs : \A a \in DOMAIN heap'[r] :
          (a \notin DOMAIN heap[r] /\ heap'[r][a].val = "Pack") =>
              /\ ctrl[r].kind = "Value"
              /\ heap[r][ctrl[r].value].val = "PAP"
              /\ heap[r][ctrl[r].value].missing = 0
              /\ LET prim == heap[r][ctrl[r].value].prim
                     new == heap'[r][a]
                 IN  \/ /\ prim.prim = "Pack"
                        /\ new.tag = prim.tag
                        /\ Len(new.args) = prim.arity
                     \/ /\ prim.prim = "External"
                        /\ new.tag \in {0, 1}
                        /\ new.args = <<>>]_vars

\* The run returned a Pack of two fields that the built-ins lt and puti
\* produced: Pack(1, [true, unit]).
C2_Witness ==
    /\ pc[1] = "returned"
    /\ LET v == heap[1][ctrl[1].value]
       IN  /\ v.val = "Pack" /\ v.tag = 1 /\ Len(v.args) = 2
           /\ heap[1][v.args[1]] = VPack(1, <<>>)
           /\ heap[1][v.args[2]] = VPack(0, <<>>)

IsPrefix(s, t) == Len(s) <= Len(t) /\ SubSeq(t, 1, Len(s)) = s

\* What an entry of OrderedEntries writes and leaves unread when its
\* arguments are evaluated from left to right, each one completely before
\* the next: puti of a literal writes it, puti of getc reads the next byte
\* (or -1 at the end) and writes it.
RECURSIVE InOrder(_, _)
RECURSIVE InOrderArgs(_, _, _)
InOrder(e, st) ==
    IF e.fun = External("puti")
    THEN IF e.args[1].node = "Num"
         THEN [out |-> st.out \o DisplayI64(e.args[1].int) \o <<10>>,
               inp |-> st.inp]
         ELSE IF st.inp = <<>>
         THEN [out |-> st.out \o DisplayI64(0 - 1) \o <<10>>, inp |-> st.inp]
         ELSE [out |-> st.out \o DisplayI64(st.inp[1]) \o <<10>>,
               inp |-> Tail(st.inp)]
    ELSE InOrderArgs(e.args, 1, st)
InOrderArgs(args, i, st) ==
    IF i > Len(args) THEN st
    ELSE InOrderArgs(args, i + 1, InOrder(args[i], st))

\* C3: the arguments of an application are evaluated from left to right:
\* what a run of an entry of OrderedEntries has written is always a prefix
\* of what left-to-right evaluation writes, and is all of it, with the same
\* input left, once the run has returned.
C3_LeftToRight ==
    \A r \in Runs :
        entry \in OrderedEntries =>
            LET ref == InOrder(entry, [out |-> <<>>, inp |-> stdin])
            IN  /\ IsPrefix(output[r], ref.out)
                /\ pc[r] # "panicked"
                /\ pc[r] = "returned" =>
                      output[r] = ref.out /\ input[r] = ref.inp

\* seq (puti 1) (puti 2) has returned and "1\n2\n" is written.
C3_Witness ==
    /\ entry = Ap(External("seq"), <<Puti(Num(1)), Puti(Num(2))>>)
    /\ pc[1] = "returned"
    /\ output[1] = <<49, 10, 50, 10>>

\* Reads are ordered with writes: seq (puti (getc ())) (seq ...) on input
\* 9 7 8 has written "9\n7\n8\n".
C3_WitnessReads ==
    /\ entry \in OrderedEntries
    /\ stdin = <<9, 7, 8>>
    /\ pc[1] = "returned"
    /\ output[1] = <<57, 10, 55, 10, 56, 10>>

\* Run r takes a step of State::step in this transition.
Stepped(r) == invoked'[r] = invoked[r] + 1

\* The step of run r pops a frame of the given variant: the control is a
\* value other than a saturated PAP.
Pops(r, frame) ==
    /\ Stepped(r)
    /\ ctrl[r].kind = "Value"
    /\ ~(heap[r][ctrl[r].value].val = "PAP"
         /\ heap[r][ctrl[r].value].missing = 0)
    /\ kont[r] # <<>>
    /\ kont[r][Len(kont[r])].frame = frame

\* C4: a Let frame fired at length L leaves length L + 1 and a Pop(1) frame;
\* a Match frame fired on Pack(tag, args) leaves length L + len(args) and a
\* Pop(len(args)) frame; a popped Pop(n) finds at least n entries, removes
\* exactly the last n and leaves the environment in which its Let or Match
\* frame fired.
C4_EnvBalanced ==
    [][\A r \in Runs :
          LET top == kont[r][Len(kont[r])]
              v == heap[r][ctrl[r].value]
              below == SubSeq(kont[r], 1, Len(kont[r]) - 1)
          IN  /\ Pops(r, "Let") =>
                    /\ env'[r] = Append(env[r], ctrl[r].value)
                    /\ kont'[r] = Append(below, KPop(1))
              /\ (Pops(r, "Match") /\ pc'[r] = "loop") =>
                    /\ env'[r] = env[r] \o v.args
                    /\ kont'[r] = Append(below, KPop(Len(v.args)))
              /\ Pops(r, "Pop") =>
                    /\ pc'[r] = "loop"
                    /\ top.count <= Len(env[r])
                    /\ env'[r] = SubSeq(env[r], 1, Len(env[r]) - top.count)
                    /\ env'[r] = kenv[r][Len(kont[r])]
                    /\ kont'[r] = below]_vars

\* let x = 1 in match swap (Pack(x, 2)) { (a, b) -> a - x }: the alternative
\* has produced 1, its Pop(2) is popped and the environment is [x] again.
C4_Witness ==
    /\ entry = SwapMatchEntry
    /\ kont[1] = <<KPop(1)>>
    /\ Len(env[1]) = 1
    /\ heap[1][env[1][1]] = VNum(1)
    /\ ctrl[1].kind = "Value"
    /\ heap[1][ctrl[1].value] = VNum(1)

\* C5: after every step that returns the control is an expression or a
\* value, and no run ends in the panic of a step that finds Evaluating.
C5_NeverEvaluating ==
    \A r \in Runs :
        /\ pc[r] # "panicked" => ctrl[r].kind \in {"Expr", "Value"}
        /\ pc[r] = "panicked" => ctrl[r].kind = "Evaluating"
        /\ panic[r] # "Control was not update after last step"

\* A call has returned through its Dump frame and run() is about to step
\* again: the control holds the value the callee produced.
C5_Witness ==
    /\ entry = OverApplyEntry
    /\ pc[1] = "loop"
    /\ ctrl[1].kind = "Value"
    /\ heap[1][ctrl[1].value].val = "PAP"
    /\ heap[1][ctrl[1].value].prim = PrimExternal("add")
    /\ Len(kont[1]) = 2
    /\ kont[1][2].frame = "Args"
    /\ Len(kont[1][2].args) = 2

\* The control is a Num or a Pack and the continuation stack is empty.
FinalShape(r) ==
    /\ ctrl[r].kind = "Value"
    /\ heap[r][ctrl[r].value].val # "PAP"
    /\ Len(kont[r]) = 0

\* C6: is_final holds exactly in the states of FinalShape; run() can step
\* exactly in the states that are not final and can return exactly in those
\* that are, and once it has returned the state is final and the count is
\* the number of steps entered.
C6_Driver ==
    /\ \A r \in Runs :
          /\ is_final(r) <=> FinalShape(r)
          /\ pc[r] = "returned" => FinalShape(r)
          /\ pc[r] # "panicked" => count[r] = invoked[r]
          /\ pc[r] = "panicked" => invoked[r] = count[r] + 1
    /\ (pc[1] = "loop" /\ count[1] < MaxSteps) =>
          /\ ENABLED step(1) <=> ~FinalShape(1)
          /\ ENABLED Return(1) <=> FinalShape(1)
    /\ pc[1] # "loop" => ~ENABLED run(1)

\* run() has returned after more than fifty steps.
C6_Witness ==
    /\ pc[1] = "returned"
    /\ count[1] > 50
    /\ count[1] = invoked[1]

RECURSIVE Reify(_, _)
Reify(h, a) ==
    IF h[a].val = "Num" THEN h[a]
    ELSE [h[a] EXCEPT !.args = [i \in DOMAIN h[a].args |-> Reify(h, h[a].args[i])]]

\* A literal entry, and the value it names. An Ap with no arguments is no
\* literal: its empty Args frame is fatal.
RECURSIVE IsLiteral(_)
IsLiteral(e) ==
    \/ e.node = "Num"
    \/ e.node = "Pack" /\ e.arity = 0
    \/ /\ e.node = "Ap"
       /\ e.fun.node = "Pack"
       /\ e.args # <<>>
       /\ e.fun.arity = Len(e.args)
       /\ \A i \in DOMAIN e.args : IsLiteral(e.args[i])
RECURSIVE Denote(_)
Denote(e) ==
    IF e.node = "Num" THEN VNum(e.int)
    ELSE IF e.node = "Pack" THEN VPack(e.tag, <<>>)
    ELSE VPack(e.fun.tag, [i \in DOMAIN e.args |-> Denote(e.args[i])])

\* run() has returned with the value the literal entry names.
HaltedWithLiteral ==
    /\ pc[1] = "returned"
    /\ kont[1] = <<>>
    /\ ctrl[1].kind = "Value"
    /\ IsLiteral(entry)
    /\ Reify(heap[1], ctrl[1].value) = Denote(entry)

\* C8: with the empty module, a run of a literal entry returns, its control
\* the value the entry names and its continuation stack empty.
C8_LiteralHalts ==
    (module = EmptyModule /\ IsLiteral(entry)) ~> HaltedWithLiteral

\* Pack1(3, Pack0(unit, -5)) has been built and returned.
C8_Witness ==
    /\ module = EmptyModule
    /\ entry = Ap(PackE(1, 2),
                  <<Num(3), Ap(PackE(0, 2), <<Unit, Num(0 - 5)>>)>>)
    /\ HaltedWithLiteral
    /\ Reify(heap[1], ctrl[1].value)
         = VPack(1, <<VNum(3), VPack(0, <<VPack(0, <<>>), VNum(0 - 5)>>)>>)

\* C9: a step on Local(i) with 1 <= i <= len(env) sets the control to the
\* handle at position len - i from the bottom and leaves the environment and
\* the continuation stack as they were; with i = 0 or i > len(env) the step
\* panics and the control holds no value.
C9_LocalLookup ==
    [][\A r \in Runs :
          (Stepped(r) /\ ctrl[r].kind = "Expr" /\ ctrl[r].expr.node = "Local") =>
              LET i == ctrl[r].expr.idx
                  len == Len(env[r])
              IN  IF 1 <= i /\ i <= len
                  THEN /\ ctrl'[r] = CtrlValue(env[r][(len - i) + 1])
                       /\ env'[r] = env[r]
                       /\ kont'[r] = kont[r]
                       /\ pc'[r] = "loop"
                  ELSE /\ pc'[r] = "panicked"
                       /\ ctrl'[r].kind # "Value"]_vars

\* Local(2) under two bindings has resolved to the outer one.
C9_Witness ==
    /\ entry = Bound(Local(2))
    /\ Len(env[1]) = 2
    /\ ctrl[1] = CtrlValue(env[1][1])
    /\ heap[1][env[1][1]] = VNum(1)
    /\ heap[1][env[1][2]].val = "PAP"

\* C10: a cell of the heap never changes once it is allocated, the Fun
\* frame an Args frame leaves holds the collected arguments and the missing
\* count of the PAP in the control, and firing leaves the PAP as it was; a
\* PAP bound by a let and applied twice starts each time from the arguments
\* it was bound with: let p = add 1 in seq (puti (p 10)) (puti (p 20))
\* writes 11 and 21.
C10_ValuesImmutable ==
    /\ [](\A r \in Runs :
            (entry = ReuseEntry /\ pc[r] = "returned") =>
                output[r] = <<49, 49, 10, 50, 49, 10>>)
    /\ [][\A r \in Runs :
            /\ Len(heap'[r]) >= Len(heap[r])
            /\ \A a \in DOMAIN heap[r] : heap'[r][a] = heap[r][a]
            /\ (Pops(r, "Args") /\ pc'[r] = "loop") =>
                  LET v == heap[r][ctrl[r].value]
                  IN  kont'[r][Len(kont'[r])] = KFun(v.prim, v.args, v.missing)]_vars

\* The PAP bound to p has been applied a second time: 11 is written, 21 is
\* about to be, and p still holds the one argument it was bound with.
C10_Witness ==
    /\ entry = ReuseEntry
    /\ output[1] = <<49, 49, 10>>
    /\ \E a \in DOMAIN heap[1], p \in DOMAIN heap[1] :
          /\ Reify(heap[1], p) = VPAP(PrimExternal("add"), <<VNum(1)>>, 1)
          /\ Reify(heap[1], a)
               = VPAP(PrimExternal("add"), <<VNum(1), VNum(20)>>, 0)
          /\ ctrl[1] = CtrlValue(a)

\* The step about to be taken fires a built-in of the given names.
AtExternal(r, names) ==
    /\ pc[r] = "loop"
    /\ ctrl[r].kind = "Value"
    /\ heap[r][ctrl[r].value].val = "PAP"
    /\ heap[r][ctrl[r].value].missing = 0
    /\ heap[r][ctrl[r].value].prim.prim = "External"
    /\ heap[r][ctrl[r].value].prim.name \in names

\* The arguments of the PAP in the control, and whether all are numbers.
ArgCell(r, i) == heap[r][heap[r][ctrl[r].value].args[i]]
NumArgs(r) ==
    \A i \in DOMAIN heap[r][ctrl[r].value].args : ArgCell(r, i).val = "Num"

\* The step returned with a value in the control: that value.
Produces(r, cell) ==
    /\ pc'[r] = "loop"
    /\ ctrl'[r].kind = "Value"
    /\ heap'[r][ctrl'[r].value] = cell

\* The result of an integer built-in in unbounded arithmetic.
Exact(r) ==
    LET name == heap[r][ctrl[r].value].prim.name
    IN  CASE name = "add" -> ArgCell(r, 1).int + ArgCell(r, 2).int
          [] name = "sub" -> ArgCell(r, 1).int - ArgCell(r, 2).int
          [] name = "mul" -> ArgCell(r, 1).int * ArgCell(r, 2).int
          [] name = "neg" -> 0 - ArgCell(r, 1).int

\* C11: add, sub, mul and neg on numbers return the exact result wrapped to
\* the width of the integer, and the step never aborts the run.
C11_WrappingArith ==
    [][\A r \in Runs :
          (Stepped(r) /\ AtExternal(r, {"add", "sub", "mul", "neg"}) /\ NumArgs(r))
              => Produces(r, VNum(Wrap(Exact(r))))]_vars

\* The step panicked: the run is over and its control holds no value.
Aborts(r) ==
    /\ pc'[r] = "panicked"
    /\ panic'[r] # ""
    /\ ctrl'[r] = CtrlEvaluating

\* C12: a step on a Global the module does not define, a pop of an Args
\* frame by a Num or Pack, a pop of a Match frame by a value that is no Pack
\* or by a Pack whose tag is no index of the alternatives, and a pop of an
\* empty Args frame each panic; an Ap with no arguments pushes an empty Args
\* frame, which leaves the stack only by a panic, so the run never becomes
\* final; and a run that has panicked takes no further step.
C12_FatalErrors ==
    [][\A r \in Runs :
          LET v == heap[r][ctrl[r].value]
              top == kont[r][Len(kont[r])]
          IN  /\ (Stepped(r) /\ ctrl[r].kind = "Expr"
                    /\ ctrl[r].expr.node = "Global"
                    /\ ctrl[r].expr.name \notin DOMAIN module) => Aborts(r)
              /\ (Pops(r, "Args") /\ v.val \in {"Num", "Pack"}) => Aborts(r)
              /\ (Pops(r, "Args") /\ top.args = <<>>) => Aborts(r)
              /\ (Pops(r, "Match") /\ v.val # "Pack") => Aborts(r)
              /\ (Pops(r, "Match") /\ v.val = "Pack" /\ v.tag >= Len(top.altns))
                    => Aborts(r)
              /\ (Stepped(r) /\ ctrl[r].kind = "Expr" /\ ctrl[r].expr.node = "Ap"
                    /\ ctrl[r].expr.args = <<>>)
                    => /\ Len(kont'[r]) = Len(kont[r]) + 1
                       /\ kont'[r][Len(kont'[r])] = KArgs(<<>>)
              /\ \A i \in DOMAIN kont[r] :
                    kont[r][i] = KArgs(<<>>)
                        => \/ Aborts(r)
                           \/ /\ i \in DOMAIN kont'[r]
                              /\ kont'[r][i] = KArgs(<<>>)
                              /\ pc'[r] = "loop"
              /\ pc[r] = "panicked"
                    => /\ invoked'[r] = invoked[r]
                       /\ pc'[r] = "panicked"
                       /\ ctrl'[r] = ctrl[r]]_vars

\* neg applied to no argument has panicked on its empty Args frame.
C12_Witness ==
    /\ entry = Ap(External("neg"), <<>>)
    /\ pc[1] = "panicked"
    /\ panic[1] = "Empty Args"
    /\ ctrl[1] = CtrlEvaluating
    /\ count[1] = 2

\* C13: getc with a byte available returns it (0..255) and consumes it; with
\* the input exhausted it returns -1 and the run goes on. geti consumes one
\* line and returns the number its trimmed text spells; at the end of the
\* input, or when the line spells no signed decimal, the step panics.
C13_InputAtEof ==
    [][\A r \in Runs :
          /\ (Stepped(r) /\ AtExternal(r, {"getc"})) =>
                IF input[r] # <<>>
                THEN /\ Produces(r, VNum(input[r][1]))
                     /\ input[r][1] \in 0..255
                     /\ input'[r] = Tail(input[r])
                ELSE /\ Produces(r, VNum(0 - 1))
                     /\ input'[r] = <<>>
          /\ (Stepped(r) /\ AtExternal(r, {"geti"})) =>
                LET k == LineLen(input[r], 1)
                    parsed == ParseI64(Trim(SubSeq(input[r], 1, k)))
                IN  IF input[r] = <<>> \/ ~parsed.ok
                    THEN Aborts(r)
                    ELSE /\ Produces(r, VNum(parsed.value))
                         /\ input'[r] = SubSeq(input[r], k + 1, Len(input[r]))]_vars

\* sub (getc ()) (getc ()) on the one byte 7: the second getc met the end of
\* the input, returned -1, and the run went on to return 7 - (-1).
C13_Witness ==
    /\ entry = Ap(External("sub"), <<Ap(External("getc"), <<Unit>>),
                                     Ap(External("getc"), <<Unit>>)>>)
    /\ stdin = <<7>>
    /\ pc[1] = "returned"
    /\ input[1] = <<>>
    /\ heap[1][ctrl[1].value] = VNum(8)

\* C14: putc on Num(n) appends the one byte n mod 256 to the output and
\* returns Unit.
C14_PutcOneByte ==
    [][\A r \in Runs :
          (Stepped(r) /\ AtExternal(r, {"putc"}) /\ NumArgs(r)) =>
              /\ Produces(r, VPack(0, <<>>))
              /\ output'[r] = Append(output[r], ArgCell(r, 1).int % 256)]_vars

\* The step about to be taken finds a saturated PAP in the control.
AtSaturated(r) ==
    /\ pc[r] = "loop"
    /\ ctrl[r].kind = "Value"
    /\ heap[r][ctrl[r].value].val = "PAP"
    /\ heap[r][ctrl[r].value].missing = 0

\* C15: a step that finds PAP(prim, args, 0) in the control pops no frame,
\* whatever the stack holds. For a Global it pushes Dump(old env), makes the
\* environment exactly args (parameter k of n is Local(n - k + 1)) and sets
\* the control to the body; for a built-in it sets the control to the
\* built-in's result (or panics with it) and for a Pack to Pack(tag, args),
\* both with the environment and the stack as they were.
C15_SaturatedFires ==
    [][\A r \in Runs :
          (Stepped(r) /\ AtSaturated(r)) =>
              LET v == heap[r][ctrl[r].value]
                  n == Len(v.args)
              IN  /\ SubSeq(kont'[r], 1, Len(kont[r])) = kont[r]
                  /\ v.prim.prim = "Global" =>
                        /\ kont'[r] = Append(kont[r], KDump(env[r]))
                        /\ env'[r] = v.args
                        /\ n = Len(v.prim.lam.binds)
                        /\ \A k \in 1..n :
                              EnvGet(env'[r], (n - k) + 1, overflow_checks)
                                = [panic |-> "", value |-> v.args[k]]
                        /\ ctrl'[r] = CtrlExpr(v.prim.lam.body)
                        /\ pc'[r] = "loop"
                  /\ v.prim.prim = "External" =>
                        LET res == eval_external(v.prim.name, v.args, heap[r],
                                                 input[r], output[r],
                                                 overflow_checks)
                        IN  /\ kont'[r] = kont[r]
                            /\ env'[r] = env[r]
                            /\ IF res.panic # "" THEN Aborts(r)
                               ELSE Produces(r, res.heap[res.value])
                  /\ v.prim.prim = "Pack" =>
                        /\ kont'[r] = kont[r]
                        /\ env'[r] = env[r]
                        /\ Produces(r, VPack(v.prim.tag, v.args))]_vars

\* swap has fired under a Match frame and a Pop frame with x bound: the
\* caller's one local is in the Dump frame, the environment holds the pair
\* alone, and the control is swap's body.
C15_Witness ==
    /\ entry = SwapMatchEntry
    /\ Len(kont[1]) = 3
    /\ kont[1][1] = KPop(1)
    /\ kont[1][2].frame = "Match"
    /\ kont[1][3].frame = "Dump"
    /\ Len(kont[1][3].env) = 1
    /\ heap[1][kont[1][3].env[1]] = VNum(1)
    /\ Len(env[1]) = 1
    /\ Reify(heap[1], env[1][1]) = VPack(0, <<VNum(1), VNum(2)>>)
    /\ ctrl[1] = CtrlExpr(Lib["swap"].body)

\* The primitive an expression names, as Ctrl::from_prim is given it.
PrimOfExpr(e) ==
    CASE e.node = "Global" -> PrimGlobal(e.name, module[e.name])
      [] e.node = "External" -> PrimExternal(e.name)
      [] e.node = "Pack" -> PrimPack(e.tag, e.arity)

\* C16: a pop of Args(es) by PAP(prim, collected, missing > 0) pushes
\* Args(rest) only if rest is not empty, then Fun(prim, collected, missing),
\* and sets the control to the head; a pop of Fun(prim, collected, missing)
\* by w sets the control to PAP(prim, collected ++ [w], missing - 1); both
\* leave the environment alone. For let p = f e1 .. en in () with n no more
\* than f's arity k, the last Fun frame of the application leaves
\* PAP(f, [v1 .. vn], k - n) in the control.
C16_ArgCollection ==
    [][\A r \in Runs :
          LET v == heap[r][ctrl[r].value]
              top == kont[r][Len(kont[r])]
              below == SubSeq(kont[r], 1, Len(kont[r]) - 1)
          IN  /\ (Pops(r, "Args") /\ v.val = "PAP" /\ top.args # <<>>) =>
                    /\ v.missing > 0
                    /\ kont'[r] =
                         (IF Tail(top.args) # <<>>
                          THEN Append(below, KArgs(Tail(top.args)))
                          ELSE below)
                         \o <<KFun(v.prim, v.args, v.missing)>>
                    /\ ctrl'[r] = CtrlExpr(Head(top.args))
                    /\ env'[r] = env[r]
                    /\ pc'[r] = "loop"
              /\ Pops(r, "Fun") =>
                    /\ Produces(r, VPAP(top.prim, Append(top.args, ctrl[r].value),
                                        top.missing - 1))
                    /\ kont'[r] = below
                    /\ env'[r] = env[r]
              /\ (Pops(r, "Fun") /\ entry \in ApplyEntries /\ Len(kont[r]) = 2
                    /\ Len(entry.rhs.args) <= PrimArity(PrimOfExpr(entry.rhs.fun))) =>
                    LET es == entry.rhs.args
                        prim == PrimOfExpr(entry.rhs.fun)
                    IN  /\ pc'[r] = "loop"
                        /\ Reify(heap'[r], ctrl'[r].value)
                             = VPAP(prim, [i \in 1..Len(es) |-> VNum(es[i].int)],
                                    PrimArity(prim) - Len(es))
                        /\ env'[r] = <<>>]_vars

\* let p = Pack1/3 11 12 in (): the application has left the PAP holding 11
\* and 12 in that order and missing one, with the Let frame below.
C16_Witness ==
    /\ entry = Let("p", Ap(PackE(1, 3), <<Num(11), Num(12)>>), Unit)
    /\ kont[1] = <<KLet("p", Unit)>>
    /\ ctrl[1].kind = "Value"
    /\ Reify(heap[1], ctrl[1].value)
         = VPAP(PrimPack(1, 3), <<VNum(11), VNum(12)>>, 1)
    /\ env[1] = <<>>

\* C17: a pop of Match(altns) by Pack(tag, [a0 .. a(k-1)]) pushes Pop(k),
\* appends the fields to the environment in order (a0 deepest, field j is
\* Local(k - j), every earlier Local(i) is now Local(i + k) with the value it
\* had) and sets the control to altns[tag].rhs; in a match whose alternatives
\* each write their own number, only the number of the scrutinee's tag is
\* ever written.
C17_MatchBinding ==
    /\ [](\A r \in Runs : \A t \in 0..2 :
            entry = MatchEntry(t) =>
                /\ IsPrefix(output[r], DisplayI64(100 + t) \o <<10>>)
                /\ pc[r] = "returned" => output[r] = DisplayI64(100 + t) \o <<10>>)
    /\ [][\A r \in Runs :
            LET v == heap[r][ctrl[r].value]
                top == kont[r][Len(kont[r])]
                below == SubSeq(kont[r], 1, Len(kont[r]) - 1)
                k == Len(v.args)
            IN  (Pops(r, "Match") /\ v.val = "Pack" /\ v.tag < Len(top.altns)) =>
                    /\ kont'[r] = Append(below, KPop(k))
                    /\ env'[r] = env[r] \o v.args
                    /\ \A j \in 0..(k - 1) :
                          EnvGet(env'[r], k - j, overflow_checks)
                            = [panic |-> "", value |-> v.args[j + 1]]
                    /\ \A i \in 1..Len(env[r]) :
                          EnvGet(env'[r], i + k, overflow_checks)
                            = EnvGet(env[r], i, overflow_checks)
                    /\ ctrl'[r] = CtrlExpr(top.altns[v.tag + 1].rhs)
                    /\ pc'[r] = "loop"]_vars

\* The match of SwapMatchEntry has bound the swapped pair (2, 1) above x:
\* a = 2 is Local(2), b = 1 is Local(1), x is now Local(3).
C17_Witness ==
    /\ entry = SwapMatchEntry
    /\ kont[1] = <<KPop(1), KPop(2)>>
    /\ Len(env[1]) = 3
    /\ heap[1][env[1][1]] = VNum(1)
    /\ heap[1][env[1][2]] = VNum(2)
    /\ heap[1][env[1][3]] = VNum(1)
    /\ ctrl[1] = CtrlExpr(Ap(External("sub"), <<Local(2), Local(3)>>))

\* C18: when a saturated Global PAP fires in environment E, the Dump frame
\* it pushes holds E; the pop of that frame by a value v sets the environment
\* to exactly E, whatever the callee's environment has become, and leaves v
\* in the control; the pop of a Pop frame leaves v in the control too.
C18_ReturnRestoresEnv ==
    [][\A r \in Runs :
          LET top == kont[r][Len(kont[r])]
              below == SubSeq(kont[r], 1, Len(kont[r]) - 1)
          IN  /\ (Stepped(r) /\ AtSaturated(r)
                    /\ heap[r][ctrl[r].value].prim.prim = "Global") =>
                    /\ kont'[r][Len(kont'[r])] = KDump(env[r])
                    /\ kenv'[r][Len(kont'[r])] = env[r]
              /\ Pops(r, "Dump") =>
                    /\ env'[r] = kenv[r][Len(kont[r])]
                    /\ env'[r] = top.env
                    /\ ctrl'[r] = ctrl[r]
                    /\ kont'[r] = below
                    /\ pc'[r] = "loop"
              /\ Pops(r, "Pop") =>
                    /\ ctrl'[r] = ctrl[r]
                    /\ kont'[r] = below
                    /\ pc'[r] = "loop"]_vars

\* swap, called with x bound, has returned the swapped pair: its own
\* environment (the pair alone) is gone and the caller's x is back, the
\* Match frame waiting.
C18_Witness ==
    /\ entry = SwapMatchEntry
    /\ Len(kont[1]) = 2
    /\ kont[1][1] = KPop(1)
    /\ kont[1][2].frame = "Match"
    /\ Len(env[1]) = 1
    /\ heap[1][env[1][1]] = VNum(1)
    /\ ctrl[1].kind = "Value"
    /\ Reify(heap[1], ctrl[1].value) = VPack(0, <<VNum(2), VNum(1)>>)

\* C19: a step on Let pushes the Let frame and turns to the rhs, a step on
\* Match pushes the Match frame and turns to the scrutinee; such a frame
\* stays where it is until it is on top and the control is a value that does
\* not fire, so the body or an alternative is entered only then; the pop of
\* the Let frame by v pushes Pop(1) and v (Local(1) is v, every earlier
\* Local(i) is Local(i + 1)) and sets the control to the body. The effects
\* of a rhs or scrutinee are written before those of the body or the
\* alternative.
C19_LetOrdering ==
    /\ [](\A r \in Runs :
            entry \in {LetEffectEntry, MatchEffectEntry, LetShiftEntry} =>
                /\ IsPrefix(output[r], OrderedOutput(entry))
                /\ pc[r] = "returned" => output[r] = OrderedOutput(entry))
    /\ [][\A r \in Runs :
            LET top == kont[r][Len(kont[r])]
                below == SubSeq(kont[r], 1, Len(kont[r]) - 1)
                e == ctrl[r].expr
            IN  /\ (Stepped(r) /\ ctrl[r].kind = "Expr" /\ e.node = "Let") =>
                      /\ kont'[r] = Append(kont[r], KLet(e.lhs, e.body))
                      /\ ctrl'[r] = CtrlExpr(e.rhs)
                      /\ env'[r] = env[r]
                /\ (Stepped(r) /\ ctrl[r].kind = "Expr" /\ e.node = "Match") =>
                      /\ kont'[r] = Append(kont[r], KMatch(e.altns))
                      /\ ctrl'[r] = CtrlExpr(e.expr)
                      /\ env'[r] = env[r]
                /\ \A i \in DOMAIN kont[r] :
                      (Stepped(r) /\ kont[r][i].frame \in {"Let", "Match"}) =>
                          \/ i \in DOMAIN kont'[r] /\ kont'[r][i] = kont[r][i]
                          \/ Pops(r, kont[r][i].frame) /\ i = Len(kont[r])
                /\ Pops(r, "Let") =>
                      /\ kont'[r] = Append(below, KPop(1))
                      /\ env'[r] = Append(env[r], ctrl[r].value)
                      /\ EnvGet(env'[r], 1, overflow_checks)
                           = [panic |-> "", value |-> ctrl[r].value]
                      /\ \A i \in 1..Len(env[r]) :
                            EnvGet(env'[r], i + 1, overflow_checks)
                              = EnvGet(env[r], i, overflow_checks)
                      /\ ctrl'[r] = CtrlExpr(top.body)
                      /\ pc'[r] = "loop"]_vars

\* let x = seq (puti 1) 5 in puti (x + 1): the rhs has written 1 and left 5,
\* which is now bound, and the body is about to be reduced.
C19_Witness ==
    /\ entry = LetEffectEntry
    /\ output[1] = <<49, 10>>
    /\ kont[1] = <<KPop(1)>>
    /\ Len(env[1]) = 1
    /\ heap[1][env[1][1]] = VNum(5)
    /\ ctrl[1] = CtrlExpr(LetEffectEntry.body)

\* C20: a step on Ap pushes the Args frame in the environment E the Ap is
\* met in; every argument of that Ap, those left over after an over-applied
\* Global has fired and returned included, starts in an environment equal to
\* E; a Global that fires with an Args frame on top leaves it right below its
\* Dump frame, and an Args frame is popped only once the environment is E
\* again. let x = 5 in id add x x returns 10.
C20_ArgsInCallerEnv ==
    /\ [](\A r \in Runs :
            (entry = OverApplyEntry /\ pc[r] = "returned") =>
                heap[r][ctrl[r].value] = VNum(10))
    /\ [][\A r \in Runs :
            LET top == kont[r][Len(kont[r])]
            IN  /\ (Stepped(r) /\ ctrl[r].kind = "Expr"
                      /\ ctrl[r].expr.node = "Ap") =>
                      /\ kont'[r] = Append(kont[r], KArgs(ctrl[r].expr.args))
                      /\ kenv'[r][Len(kont'[r])] = env[r]
                      /\ env'[r] = env[r]
                /\ \A i \in DOMAIN kont[r] :
                      (kont[r][i].frame = "Args" /\ i \in DOMAIN kont'[r]
                         /\ kont'[r][i].frame = "Args")
                          => /\ kenv'[r][i] = kenv[r][i]
                             /\ \/ kont'[r][i] = kont[r][i]
                                \/ /\ Pops(r, "Args") /\ i = Len(kont[r])
                                   /\ kont'[r][i] = KArgs(Tail(kont[r][i].args))
                /\ Pops(r, "Args") => env[r] = kenv[r][Len(kont[r])]
                /\ (Pops(r, "Args") /\ pc'[r] = "loop") =>
                      /\ ctrl'[r] = CtrlExpr(Head(top.args))
                      /\ env'[r] = kenv[r][Len(kont[r])]
                /\ (Stepped(r) /\ AtSaturated(r) /\ kont[r] # <<>>
                      /\ heap[r][ctrl[r].value].prim.prim = "Global"
                      /\ top.frame = "Args") =>
                      /\ Len(kont'[r]) = Len(kont[r]) + 1
                      /\ kont'[r][Len(kont[r])] = top
                      /\ kont'[r][Len(kont'[r])].frame = "Dump"]_vars

\* let x = 5 in id add x x: id has fired and returned add, and the first of
\* the two arguments left over is about to be reduced where x is bound.
C20_Witness ==
    /\ entry = OverApplyEntry
    /\ kont[1] = <<KPop(1), KArgs(<<Local(1)>>),
                   KFun(PrimExternal("add"), <<>>, 2)>>
    /\ ctrl[1] = CtrlExpr(Local(1))
    /\ Len(env[1]) = 1
    /\ heap[1][env[1][1]] = VNum(5)
    /\ kenv[1][2] = env[1]

\* The cell behind a handle is no saturated PAP.
Unfired(h, a) == ~(h[a].val = "PAP" /\ h[a].missing = 0)

\* C21: a PAP with nothing missing is only ever in the control: no entry of
\* the environment or of an environment saved in a Dump frame, no element of
\* the argument vector of a Pack or PAP, and no element of the vector of a
\* Fun frame is one; every Fun frame misses at least one argument; and a
\* step on Local(i) that returns leaves a value that does not fire.
C21_SaturatedOnlyInCtrl ==
    /\ [](\A r \in Runs :
            /\ \A i \in DOMAIN env[r] : Unfired(heap[r], env[r][i])
            /\ \A a \in DOMAIN heap[r] :
                  heap[r][a].val \in {"Pack", "PAP"} =>
                      \A i \in DOMAIN heap[r][a].args :
                          Unfired(heap[r], heap[r][a].args[i])
            /\ \A j \in DOMAIN kont[r] :
                  /\ kont[r][j].frame = "Dump" =>
                        \A i \in DOMAIN kont[r][j].env :
                            Unfired(heap[r], kont[r][j].env[i])
                  /\ kont[r][j].frame = "Fun" =>
                        /\ kont[r][j].missing >= 1
                        /\ \A i \in DOMAIN kont[r][j].args :
                              Unfired(heap[r], kont[r][j].args[i]))
    /\ [][\A r \in Runs :
            (Stepped(r) /\ ctrl[r].kind = "Expr" /\ ctrl[r].expr.node = "Local"
               /\ pc'[r] = "loop") =>
                /\ ctrl'[r].kind = "Value"
                /\ Unfired(heap'[r], ctrl'[r].value)]_vars

\* let p = add 1 in ..: add 1 10 is in the control with nothing missing,
\* while p, bound in the environment, still misses one argument and a Fun
\* frame waits for puti's argument.
C21_Witness ==
    /\ entry = ReuseEntry
    /\ output[1] = <<>>
    /\ ctrl[1].kind = "Value"
    /\ Reify(heap[1], ctrl[1].value)
         = VPAP(PrimExternal("add"), <<VNum(1), VNum(10)>>, 0)
    /\ Len(env[1]) = 1
    /\ Reify(heap[1], env[1][1]) = VPAP(PrimExternal("add"), <<VNum(1)>>, 1)
    /\ \E j \in DOMAIN kont[1] :
          kont[1][j] = KFun(PrimExternal("puti"), <<>>, 1)

\* The control holds a PAP that misses arguments and the stack is empty.
StuckOnFunction(r) ==
    /\ ctrl[r].kind = "Value"
    /\ heap[r][ctrl[r].value].val = "PAP"
    /\ heap[r][ctrl[r].value].missing > 0
    /\ kont[r] = <<>>

\* C22: with a PAP that misses arguments in the control and an empty stack
\* the state is not final and run() has not returned; the step taken there
\* panics with "Step on final state"; no run returns with a PAP in the
\* control; and that panic comes from no other state.
C22_StuckOnFunction ==
    /\ [](\A r \in Runs :
            /\ StuckOnFunction(r) => ~is_final(r) /\ pc[r] # "returned"
            /\ pc[r] = "returned" =>
                  /\ ctrl[r].kind = "Value"
                  /\ heap[r][ctrl[r].value].val \in {"Num", "Pack"})
    /\ [][\A r \in Runs :
            /\ (Stepped(r) /\ StuckOnFunction(r)) =>
                  /\ Aborts(r)
                  /\ panic'[r] = "Step on final state"
                  /\ count'[r] = count[r]
            /\ (Stepped(r) /\ panic'[r] = "Step on final state") =>
                  StuckOnFunction(r)
            /\ (Stepped(r) /\ ctrl[r].kind = "Value" /\ kont[r] = <<>>
                  /\ ~StuckOnFunction(r)) =>
                  /\ heap[r][ctrl[r].value].val = "PAP"
                  /\ heap[r][ctrl[r].value].missing = 0
                  /\ SubSeq(kont'[r], 1, Len(kont[r])) = kont[r]]_vars

\* The entry Pack1/2 has become a PAP missing two arguments, and the step
\* taken on it over the empty stack has panicked.
C22_Witness ==
    /\ entry = PackE(1, 2)
    /\ pc[1] = "panicked"
    /\ panic[1] = "Step on final state"
    /\ kont[1] = <<>>
    /\ count[1] = 1
    /\ invoked[1] = 2
    /\ heap[1] = <<VPAP(PrimPack(1, 2), <<>>, 2)>>

====
